---- MODULE Spec2Model ----
(***************************************************************************)
(* The input-accumulation state machine of CalculatorLayout                *)
(* (src/calculator.py): process_input, evaluate_expression and             *)
(* is_safe_expression, with the display text as a sequence of characters.  *)
(*                                                                         *)
(* Numbers.  A Python number is modelled by the decimal fraction           *)
(* n / 10^k, written [n |-> n, k |-> k] and kept normalised (k = 0 or n    *)
(* not a multiple of 10).  Python evaluates with binary floating point,    *)
(* so the model evaluates an expression only where that arithmetic is      *)
(* exact (see ExactArithmetic): every operand of an operation is a dyadic  *)
(* rational, and only the final result may need one rounding, in which     *)
(* case repr() prints the short decimal the model computes.  An Equals on  *)
(* a text outside that domain (for instance "5/55") is not explored.       *)
(***************************************************************************)
EXTENDS Integers, Sequences, FiniteSets, TLC

\* Where the fields of CalculatorLayout are kept.  display_text and
\* last_result are Kivy properties, which hold one value for each instance.
\* new_expression is a plain attribute of the class (line 24):
\* class_new_expression is the value bound on the class, which every
\* instance reads that has no attribute of its own, and
\* own_new_expression the attribute of the instance, <<>> while the
\* instance has none and <<b>> once it holds b.  peer is a second
\* CalculatorLayout instance, a record of its display_text, its
\* last_result and its own_new_expression.
VARIABLES display_text, last_result, own_new_expression, class_new_expression, peer

vars == <<display_text, last_result, own_new_expression, class_new_expression, peer>>

\* The attribute new_expression read through an instance: the instance's
\* own when it has one, that of the class otherwise.
Lookup(own, class) == IF own = <<>> THEN class ELSE own[1]

\* self.new_expression as the first instance reads it (line 112)
new_expression == Lookup(own_new_expression, class_new_expression)

\* ------------------------------------------------------------------ bounds

\* Growth bound of the typed text: a token that would make the text longer
\* is explored only while the text is shorter than MaxLen.
MaxLen == 3

\* The digit buttons explored (a subset of the 0-9 keys).
Digits == {"0", "5"}

\* The operator buttons explored.  process_input treats the four operator
\* keys alike; '-' gives the unary minus and '/' the division by zero.  The
\* evaluator is explored with all four operators under EvalSpec.
Operators == {"-", "/"}

\* ------------------------------------------------------- character classes

\* A character is a string of length one.  This module is UTF-8 text; of the
\* characters past U+007F it names those a string of the module can hold
\* (the Basic Multilingual Plane, less the ones the lexer refuses), and it
\* keeps of a set of characters the strings of length one, which is none of
\* them where the module is read in another encoding.

DigitChars == <<"0", "1", "2", "3", "4", "5", "6", "7", "8", "9">>

\* 0-9, the digits of a Python number
IsAsciiDigit(c) == c \in {"0", "1", "2", "3", "4", "5", "6", "7", "8", "9"}

\* the decimal digits (category Nd) other than 0-9
OtherDecimalDigits ==
    {c \in {"۰", "۱", "۲", "۳", "۴", "۵", "۶", "۷", "۸", "۹",
         "߀", "߁", "߂", "߃", "߄", "߅", "߆", "߇", "߈", "߉",
         "০", "১", "২", "৩", "৪", "৫", "৬", "৭", "৮", "৯",
         "૦", "૧", "૨", "૩", "૪", "૫", "૬", "૭", "૮", "૯",
         "௦", "௧", "௨", "௩", "௪", "௫", "௬", "௭", "௮", "௯",
         "೦", "೧", "೨", "೩", "೪", "೫", "೬", "೭", "೮", "೯",
         "෦", "෧", "෨", "෩", "෪", "෫", "෬", "෭", "෮", "෯",
         "໐", "໑", "໒", "໓", "໔", "໕", "໖", "໗", "໘", "໙",
         "႐", "႑", "႒", "႓", "႔", "႕", "႖", "႗", "႘", "႙",
         "០", "១", "២", "៣", "៤", "៥", "៦", "៧", "៨", "៩",
         "᧐", "᧑", "᧒", "᧓", "᧔", "᧕", "᧖", "᧗", "᧘", "᧙",
         "᪀", "᪁", "᪂", "᪃", "᪄", "᪅", "᪆", "᪇", "᪈", "᪉",
         "᪐", "᪑", "᪒", "᪓", "᪔", "᪕", "᪖", "᪗", "᪘", "᪙",
         "᮰", "᮱", "᮲", "᮳", "᮴", "᮵", "᮶", "᮷", "᮸", "᮹",
         "꣐", "꣑", "꣒", "꣓", "꣔", "꣕", "꣖", "꣗", "꣘", "꣙",
         "꧐", "꧑", "꧒", "꧓", "꧔", "꧕", "꧖", "꧗", "꧘", "꧙",
         "꧰", "꧱", "꧲", "꧳", "꧴", "꧵", "꧶", "꧷", "꧸", "꧹",
         "꯰", "꯱", "꯲", "꯳", "꯴", "꯵", "꯶", "꯷", "꯸", "꯹"} :
        Len(c) = 1}

\* \d of a str pattern: every Unicode decimal digit
IsDecimalDigit(c) == IsAsciiDigit(c) \/ c \in OtherDecimalDigits

\* the characters of str.isdigit() that are no decimal digits: superscripts,
\* subscripts, circled and dotted digits
OtherDigits ==
    {c \in {"²", "³", "¹", "᧚", "₀", "₁", "₂", "₃", "₄", "₅",
         "₆", "₇", "₈", "₉", "⒈", "⒉", "⒊", "⒋", "⒌", "⒍",
         "⒎", "⒏", "⒐", "⓪", "⓵", "⓶", "⓷", "⓸", "⓹", "⓺",
         "⓻", "⓼", "⓽", "⓿", "➀", "➁", "➂", "➃", "➄", "➅",
         "➆", "➇", "➈", "➊", "➋", "➌", "➍", "➎", "➏", "➐",
         "➑", "➒"} :
        Len(c) = 1}

\* str.isdigit() on a one-character token
IsDigit(c) == IsDecimalDigit(c) \/ c \in OtherDigits

DigitVal(c) == (CHOOSE i \in 1..10 : DigitChars[i] = c) - 1

\* c in '+-*/'   (for the tokens of the input surface the substring test is
\* membership: no token is a two-character substring of '+-*/')
IsOperator(c) == c \in {"+", "-", "*", "/"}

\* The characters \s matches in a str pattern: blank, tab, line feed,
\* vertical tab, form feed, carriage return, the separators U+001C..U+001F,
\* next line U+0085, the no-break space U+00A0 and the Ogham space mark
\* U+1680.  (\s matches the spaces U+2000..U+200A, U+2028, U+2029, U+202F,
\* U+205F and U+3000 too, which the lexer refuses in a string.)
Whitespace ==
    {c \in {" ", "\t", "\n", "", "\f", "\r", "", "", "", "",
             "", " ", " "} :
        Len(c) = 1}

\* \s
IsSpace(c) == c \in Whitespace

\* a character of the class [\d+\-*/.()\s]
IsSafeChar(c) == IsDecimalDigit(c) \/ IsOperator(c) \/ c = "." \/ c = "(" \/ c = ")" \/ IsSpace(c)

ErrorText == <<"E", "r", "r", "o", "r">>

DivZeroText == <<"E", "r", "r", "o", "r", ":", " ", "D", "i", "v", "/", "0">>

\* ------------------------------------------------------------ string helpers

Last(s) == s[Len(s)]

Front(s) == SubSeq(s, 1, Len(s) - 1)

\* s.count(c)
Count(s, c) == Len(SelectSeq(s, LAMBDA x : x = c))

\* index of the last operator character of s, 0 if there is none
LastOperatorIndex(s) ==
    IF \A i \in 1..Len(s) : ~IsOperator(s[i]) THEN 0
    ELSE CHOOSE i \in 1..Len(s) :
             IsOperator(s[i]) /\ \A j \in (i + 1)..Len(s) : ~IsOperator(s[j])

\* re.split(r'([+\-*/])', current_text)[-1]
LastPart(s) == SubSeq(s, LastOperatorIndex(s) + 1, Len(s))

\* the loop of lines 166-167 as a single test
StripOneOperator(e) == IF e # <<>> /\ IsOperator(Last(e)) THEN Front(e) ELSE e

\* while expression and expression[-1] in '+-*/': expression = expression[:-1]
RECURSIVE StripTrailingOperators(_)
StripTrailingOperators(e) ==
    IF e # <<>> /\ IsOperator(Last(e)) THEN StripTrailingOperators(Front(e)) ELSE e

\* --------------------------------------------------------- is_safe_expression

\* re.search(r'[+\-*/]{2,}', expression)
HasConsecutiveOperators(e) ==
    \E i \in 1..(Len(e) - 1) : IsOperator(e[i]) /\ IsOperator(e[i+1])

\* re.search(r'\.\d*\.', expression)
HasMultipleDots(e) ==
    \E i \in 1..Len(e) :
        /\ e[i] = "."
        /\ \E j \in (i+1)..Len(e) :
               /\ e[j] = "."
               /\ \A m \in (i+1)..(j-1) : IsDecimalDigit(e[m])

\* expression and expression[0] in '+*/'
StartsWithOperator(e) == e # <<>> /\ e[1] \in {"+", "*", "/"}

\* expression.count('(') != expression.count(')')
UnbalancedParens(e) == Count(e, "(") # Count(e, ")")

\* bool(re.match(r'^[\d+\-*/.()\s]+$', expression))
MatchesSafePattern(e) == e # <<>> /\ \A i \in 1..Len(e) : IsSafeChar(e[i])

\* is_safe_expression without the test of lines 219-220
IsSafeWithoutStartTest(e) ==
    IF HasConsecutiveOperators(e) THEN FALSE
    ELSE IF HasMultipleDots(e) THEN FALSE
    ELSE IF UnbalancedParens(e) THEN FALSE
    ELSE MatchesSafePattern(e)

is_safe_expression(e) ==
    IF HasConsecutiveOperators(e) THEN FALSE
    ELSE IF HasMultipleDots(e) THEN FALSE
    ELSE IF StartsWithOperator(e) THEN FALSE
    ELSE IF UnbalancedParens(e) THEN FALSE
    ELSE MatchesSafePattern(e)

\* ------------------------------------------------------------------ numbers

Abs(n) == IF n < 0 THEN -n ELSE n

RECURSIVE Pow(_, _)
Pow(b, k) == IF k = 0 THEN 1 ELSE b * Pow(b, k - 1)

RECURSIVE GCD(_, _)
GCD(a, b) == IF b = 0 THEN a ELSE GCD(b, a % b)

\* how often the prime p divides d (d > 0)
RECURSIVE Multiplicity(_, _)
Multiplicity(d, p) == IF d % p = 0 THEN 1 + Multiplicity(d \div p, p) ELSE 0

\* the decimal fraction n / 10^k, normalised
RECURSIVE Num(_, _)
Num(n, k) == IF k > 0 /\ n % 10 = 0 THEN Num(n \div 10, k - 1) ELSE [n |-> n, k |-> k]

Zero == Num(0, 0)

\* a rational with a finite binary expansion: an exact double in this range
IsDyadic(v) == v.n % Pow(5, v.k) = 0

IsIntegral(v) == v.k = 0

Neg(v) == [n |-> -v.n, k |-> v.k]

Add(a, b) ==
    LET k == IF a.k > b.k THEN a.k ELSE b.k
    IN  Num(a.n * Pow(10, k - a.k) + b.n * Pow(10, k - b.k), k)

Sub(a, b) == Add(a, Neg(b))

Mul(a, b) == Num(a.n * b.n, a.k + b.k)

\* a / b for b # 0, as the reduced fraction p / q with q > 0
Quotient(a, b) ==
    LET p0 == a.n * Pow(10, b.k) * (IF b.n < 0 THEN -1 ELSE 1)
        q0 == Abs(b.n) * Pow(10, a.k)
        g  == GCD(Abs(p0), q0)
    IN  [p |-> p0 \div g, q |-> q0 \div g]

\* the quotient has a finite decimal expansion
Terminates(f) ==
    f.q = Pow(2, Multiplicity(f.q, 2)) * Pow(5, Multiplicity(f.q, 5))

\* a / b where the quotient terminates
Div(a, b) ==
    LET f == Quotient(a, b)
        t == Multiplicity(f.q, 2)
        v == Multiplicity(f.q, 5)
        j == IF t > v THEN t ELSE v
    IN  Num(f.p * (Pow(10, j) \div f.q), j)

\* str(int) of a natural number
RECURSIVE NatStr(_)
NatStr(n) == IF n < 10 THEN <<DigitChars[n + 1]>> ELSE NatStr(n \div 10) \o <<DigitChars[(n % 10) + 1]>>

\* the k low decimal digits of n, zero padded
RECURSIVE FracStr(_, _)
FracStr(n, k) == IF k = 0 THEN <<>> ELSE FracStr(n \div 10, k - 1) \o <<DigitChars[(n % 10) + 1]>>

Sign(v) == IF v.n < 0 THEN <<"-">> ELSE <<>>

\* str(int(result))
IntStr(v) == Sign(v) \o NatStr(Abs(v.n))

\* str(result) of a float that is not integral, in repr's fixed notation
FloatStr(v) ==
    Sign(v) \o NatStr(Abs(v.n) \div Pow(10, v.k)) \o <<".">> \o FracStr(Abs(v.n) % Pow(10, v.k), v.k)

\* lines 186-190: integral results lose their ".0"
FormatResult(v) == IF IsIntegral(v) THEN IntStr(v) ELSE FloatStr(v)

\* --------------------------------------------------------------------- eval
\* Python's eval (line 180) on a string is_safe_expression accepted.  The
\* texts the buttons can build hold no parenthesis and no blank, so such a
\* string is  ['-'] literal (operator literal)* .

\* re.split(r'[+\-*/]', e): the runs between the operator characters
Chunks(e) ==
    LET at == SelectSeq([i \in 1..Len(e) |-> i], LAMBDA i : IsOperator(e[i]))
    IN  [j \in 1..(Len(at) + 1) |->
            SubSeq(e, IF j = 1 THEN 1 ELSE at[j - 1] + 1,
                      IF j > Len(at) THEN Len(e) ELSE at[j] - 1)]

\* the operator characters of e, in order
OperatorsOf(e) == SelectSeq(e, IsOperator)

\* a leading '-' is the unary minus of the first literal
HasUnaryMinus(e) == e # <<>> /\ e[1] = "-"

\* a leading '+' or '-' is a unary operator, no binary one
HasUnarySign(e) == e # <<>> /\ e[1] \in {"+", "-"}

Literals(e) == IF HasUnarySign(e) THEN Tail(Chunks(e)) ELSE Chunks(e)

BinaryOperators(e) == IF HasUnarySign(e) THEN Tail(OperatorsOf(e)) ELSE OperatorsOf(e)

\* sys.get_int_max_str_digits(): compile() refuses a decimal integer literal
\* of more digits with a SyntaxError (a literal of zeros only is read
\* whatever its length, a float literal too)
MaxStrDigits == 4300

\* Python's number tokens: "05" is a SyntaxError (leading zeros in a decimal
\* integer literal), "00" and "0.5" and "05.5" and "5." and ".5" are not; "."
\* alone is no number
IsLiteral(c) ==
    IF Count(c, ".") = 0
    THEN /\ c # <<>>
         /\ \/ \A i \in 1..Len(c) : c[i] = "0"
            \/ c[1] # "0" /\ Len(c) <= MaxStrDigits
    ELSE Count(c, ".") = 1 /\ Len(c) > 1

\* the digits of c read as a natural number, the point left out
RECURSIVE DigitsValue(_)
DigitsValue(c) ==
    IF c = <<>> THEN 0
    ELSE IF Last(c) = "." THEN DigitsValue(Front(c))
    ELSE 10 * DigitsValue(Front(c)) + DigitVal(Last(c))

\* digits after the decimal point
FractionDigits(c) ==
    IF Count(c, ".") = 0 THEN 0
    ELSE Len(c) - (CHOOSE i \in 1..Len(c) : c[i] = ".")

LiteralValue(c) == Num(DigitsValue(c), FractionDigits(c))

\* the operand values of the literals, the unary minus applied
Operands(lits, minus) ==
    [i \in 1..Len(lits) |->
        IF i = 1 /\ minus THEN Neg(LiteralValue(lits[i])) ELSE LiteralValue(lits[i])]

\* compile() rejects the string: some run is no number
IsSyntaxError(lits) == \E i \in 1..Len(lits) : ~IsLiteral(lits[i])

\* 2^1024 - 2^970 in decimal: the least integer that rounds, half to even,
\* past the largest float
OverflowThreshold ==
    <<"1", "7", "9", "7", "6", "9", "3", "1", "3", "4", "8", "6", "2", "3", "1", "5",
      "8", "0", "7", "9", "3", "7", "2", "8", "9", "7", "1", "4", "0", "5", "3", "0",
      "3", "4", "1", "5", "0", "7", "9", "9", "3", "4", "1", "3", "2", "7", "1", "0",
      "0", "3", "7", "8", "2", "6", "9", "3", "6", "1", "7", "3", "7", "7", "8", "9",
      "8", "0", "4", "4", "4", "9", "6", "8", "2", "9", "2", "7", "6", "4", "7", "5",
      "0", "9", "4", "6", "6", "4", "9", "0", "1", "7", "9", "7", "7", "5", "8", "7",
      "2", "0", "7", "0", "9", "6", "3", "3", "0", "2", "8", "6", "4", "1", "6", "6",
      "9", "2", "8", "8", "7", "9", "1", "0", "9", "4", "6", "5", "5", "5", "5", "4",
      "7", "8", "5", "1", "9", "4", "0", "4", "0", "2", "6", "3", "0", "6", "5", "7",
      "4", "8", "8", "6", "7", "1", "5", "0", "5", "8", "2", "0", "6", "8", "1", "9",
      "0", "8", "9", "0", "2", "0", "0", "0", "7", "0", "8", "3", "8", "3", "6", "7",
      "6", "2", "7", "3", "8", "5", "4", "8", "4", "5", "8", "1", "7", "7", "1", "1",
      "5", "3", "1", "7", "6", "4", "4", "7", "5", "7", "3", "0", "2", "7", "0", "0",
      "6", "9", "8", "5", "5", "5", "7", "1", "3", "6", "6", "9", "5", "9", "6", "2",
      "2", "8", "4", "2", "9", "1", "4", "8", "1", "9", "8", "6", "0", "8", "3", "4",
      "9", "3", "6", "4", "7", "5", "2", "9", "2", "7", "1", "9", "0", "7", "4", "1",
      "6", "8", "4", "4", "4", "3", "6", "5", "5", "1", "0", "7", "0", "4", "3", "4",
      "2", "7", "1", "1", "5", "5", "9", "6", "9", "9", "5", "0", "8", "0", "9", "3",
      "0", "4", "2", "8", "8", "0", "1", "7", "7", "9", "0", "4", "1", "7", "4", "4",
      "9", "7", "7", "9", "2">>

\* the digit of weight 10^(i-1) of the digit string d, 0 past its left end
DigitAt(d, i) == IF i >= 1 /\ i <= Len(d) THEN DigitVal(d[Len(d) + 1 - i]) ELSE 0

\* the sum, over i in lo..hi, of the products of digit i of x and the digit
\* of y that meets it in the column of weight 10^(k-1) of x * y
RECURSIVE ColumnRange(_, _, _, _, _)
ColumnRange(x, y, k, lo, hi) ==
    IF lo > hi THEN 0
    ELSE IF lo = hi THEN DigitAt(x, lo) * DigitAt(y, k + 1 - lo)
    ELSE ColumnRange(x, y, k, lo, (lo + hi) \div 2)
         + ColumnRange(x, y, k, (lo + hi) \div 2 + 1, hi)

\* column k of the product x * y, carries not propagated
Column(x, y, k) ==
    ColumnRange(x, y, k, IF k + 1 - Len(y) > 1 THEN k + 1 - Len(y) ELSE 1,
                IF k < Len(x) THEN k ELSE Len(x))

\* A column of a - x * y is at most 81 * Len(x) in size, so the columns
\* below one weigh less than 9 * Len(x) + 1 units of it: a running
\* difference of that size has the sign of a - x * y.
Decided(x, r) == r > 9 * Len(x) \/ r < -(9 * Len(x))

\* the steps of one call chain of a recursion that is taken in blocks, to
\* keep the evaluation of a long text shallow
BlockLen == 64

\* The running difference r of a and x * y, taken down from column k to
\* column lo, most significant first; a decided r is kept as it is.
RECURSIVE Difference(_, _, _, _, _, _)
Difference(a, x, y, k, lo, r) ==
    IF k < lo \/ Decided(x, r) THEN r
    ELSE Difference(a, x, y, k - 1, lo, 10 * r + DigitAt(a, k) - Column(x, y, k))

\* the same from column k down to column 1, a block of columns at a time
RECURSIVE DifferenceFrom(_, _, _, _, _)
DifferenceFrom(a, x, y, k, r) ==
    IF k < 1 \/ Decided(x, r) THEN r
    ELSE DifferenceFrom(a, x, y, k - BlockLen,
                        Difference(a, x, y, k, IF k > BlockLen THEN k - BlockLen + 1 ELSE 1, r))

\* a >= x * y for the naturals the digit strings a, x and y write
AtLeastProduct(a, x, y) ==
    DifferenceFrom(a, x, y, IF Len(a) > Len(x) + Len(y) THEN Len(a) ELSE Len(x) + Len(y), 0) >= 0

\* the digits of the int literal c reach OverflowThreshold: float(c) fails
TooLargeForFloat(c) == AtLeastProduct(c, OverflowThreshold, <<"1">>)

\* The division of line 180 raises OverflowError.  int / int computes the
\* correctly rounded quotient, which is too large for a float from
\* OverflowThreshold on.  Where one operand is a float the other, an int, is
\* converted first, which fails from the same threshold on, whatever the
\* float.  (A float literal that large is inf, and float / float raises no
\* OverflowError.)
QuotientOverflows(lits, ops) ==
    /\ ops = <<"/">>
    /\ IF Count(lits[1], ".") = 0
       THEN IF Count(lits[2], ".") = 0
            THEN /\ \E j \in 1..Len(lits[2]) : lits[2][j] # "0"
                 /\ AtLeastProduct(lits[1], OverflowThreshold, lits[2])
            ELSE TooLargeForFloat(lits[1])
       ELSE Count(lits[2], ".") = 0 /\ TooLargeForFloat(lits[2])

\* sys.getrecursionlimit(), which the code leaves as it is
RecursionLimit == 1000

\* The frames of the Python stack at the call of line 180, that of
\* evaluate_expression counted: how many the caller adds is not in the
\* source.  There is one at least, and the model takes the caller to use
\* at most half of the recursion limit.
MinFrames == 1
MaxFrames == 500

\* The first calls of evaluate_expression in a process, whether they reach
\* line 180 or return before it: in these the compiler refuses a nesting
\* three levels earlier than in the later ones.
EarlyCalls == 7

\* The least nesting the compiler refuses with that many frames below it
\* (it counts three levels to a frame) in the given call of
\* evaluate_expression, counted from the start of the process: with two
\* frames a sum of 2992 terms in the first seven calls and one of 2995
\* terms from the eighth on.
CompileDepth(frames, call) ==
    IF call <= EarlyCalls
    THEN 3 * (RecursionLimit - frames) - 2
    ELSE 3 * (RecursionLimit - frames) + 1

\* The tree of the expression nests at least d nodes deep.  '*' and '/'
\* bind to the left within a term and '+' and '-' to the left between terms,
\* so the first literal of a term lies deepest: under the additive
\* operators from its term on (all of them for the first term), under the
\* operators of its term and, for the first one, under the unary sign.
NestsAtLeast(ops, sign, d) ==
    LET at == SelectSeq([i \in 1..Len(ops) |-> i], LAMBDA i : ops[i] \in {"+", "-"})
        m == Len(at) + 1
    IN  \E t \in 1..m :
            (IF t = 1 THEN m - 1 ELSE m - t + 1)
            + ((IF t = m THEN Len(ops) + 1 ELSE at[t]) - (IF t = 1 THEN 0 ELSE at[t - 1]))
            + (IF t = 1 /\ sign THEN 1 ELSE 0) >= d

\* 10^308 is below OverflowThreshold and below the largest float.
MaxFloatDigits == 308

\* No operation of the expression overflows.  A literal of d characters is
\* below 10^d and, unless it is zero, at least 10^-d, so that the products
\* and quotients within a term of d characters stay below 10^d, and the
\* sums of m such terms below m times that: with d and the digits of m
\* within MaxFloatDigits no int is too large for a float and no float is
\* infinite.  (The terms are the stretches of the text between the binary
\* '+' and '-'.)
StaysFinite(e) ==
    LET at == SelectSeq([i \in 1..Len(e) |-> i], LAMBDA i : i > 1 /\ e[i] \in {"+", "-"})
        m == Len(at) + 1
    IN  \A t \in 1..m :
            ((IF t = m THEN Len(e) + 1 ELSE at[t]) - (IF t = 1 THEN 0 ELSE at[t - 1]) - 1)
            + Len(NatStr(m)) <= MaxFloatDigits

\* some division has a zero divisor (every divisor is a literal)
DividesByZero(ops, vals) == \E i \in 1..Len(ops) : ops[i] = "/" /\ vals[i + 1].n = 0

HasAdditive(ops) == \E i \in 1..Len(ops) : ops[i] \in {"+", "-"}

\* The numbers the model computes with: five digits and four decimals at
\* most, so that the sum and the quotient of two of them, and every product
\* that is one of them, stay within the integers of the checker.
MaxValue == 99999
MaxScale == 4

Small(v) == Abs(v.n) <= MaxValue /\ v.k <= MaxScale

\* the product of two such numbers is one
SmallProduct(a, b) ==
    /\ b.n = 0 \/ Abs(a.n) <= MaxValue \div Abs(b.n)
    /\ Small(Mul(a, b))

\* the quotient of two such numbers terminates and is one
SmallQuotient(a, b) ==
    LET f == Quotient(a, b)
        t == Multiplicity(f.q, 2)
        v == Multiplicity(f.q, 5)
        j == IF t > v THEN t ELSE v
    IN  /\ Terminates(f)
        /\ j <= MaxScale
        /\ Abs(f.p) <= MaxValue \div (Pow(10, j) \div f.q)

\* acc (+|-) cur
Combine(st) == IF st.sign = "+" THEN Add(st.acc, st.cur) ELSE Sub(st.acc, st.cur)

\* Left to right with '*' and '/' binding tighter than '+' and '-': cur is
\* the running product, acc the sum of the terms before it.  exact turns
\* FALSE when a quotient is no exact double and is used again, or has no
\* finite decimal expansion, or when a result is no number the model
\* computes with (Small).
\* (the operators i..hi are taken in by one call chain of Fold)
RECURSIVE Fold(_, _, _, _, _)
Fold(vals, ops, i, hi, st) ==
    IF ~st.exact \/ i > hi THEN st
    ELSE IF ops[i] = "*" THEN
        IF SmallProduct(st.cur, vals[i + 1])
        THEN Fold(vals, ops, i + 1, hi, [st EXCEPT !.cur = Mul(st.cur, vals[i + 1])])
        ELSE [st EXCEPT !.exact = FALSE]
    ELSE IF ops[i] = "/" THEN
        IF /\ SmallQuotient(st.cur, vals[i + 1])
           /\ \/ IsDyadic(Div(st.cur, vals[i + 1]))
              \/ (i = Len(ops) /\ ~HasAdditive(ops))
        THEN Fold(vals, ops, i + 1, hi, [st EXCEPT !.cur = Div(st.cur, vals[i + 1])])
        ELSE [st EXCEPT !.exact = FALSE]
    ELSE Fold(vals, ops, i + 1, hi,
              [acc |-> Combine(st), sign |-> ops[i], cur |-> vals[i + 1], exact |-> Small(Combine(st))])

\* Fold from operator i on, a block of operators at a time
RECURSIVE FoldFrom(_, _, _, _)
FoldFrom(vals, ops, i, st) ==
    IF ~st.exact \/ i > Len(ops) THEN st
    ELSE FoldFrom(vals, ops, i + BlockLen,
                  Fold(vals, ops, i, IF i + BlockLen - 1 < Len(ops) THEN i + BlockLen - 1 ELSE Len(ops), st))

Folded(ops, vals) ==
    FoldFrom(vals, ops, 1, [acc |-> Zero, sign |-> "+", cur |-> vals[1], exact |-> TRUE])

\* repr prints v in fixed notation (exponent notation starts below 1e-4)
InFixedNotation(v) == v.n = 0 \/ Abs(v.n) * Pow(10, 4) >= Pow(10, v.k)

\* Floating point computes the folded value exactly, up to one final
\* rounding that repr undoes: a literal alone, or dyadic operands and dyadic
\* intermediate results.
ExactArithmetic(ops, vals, folded) ==
    IF \E i \in 1..Len(vals) : ~Small(vals[i]) THEN FALSE
    ELSE IF ops = <<>> THEN InFixedNotation(Combine(folded))
    ELSE IF \E i \in 1..Len(vals) : ~IsDyadic(vals[i]) THEN FALSE
    ELSE IF ~folded.exact THEN FALSE
    ELSE Small(Combine(folded)) /\ InFixedNotation(Combine(folded))

\* A float too large for a double, float('inf') or float('-inf'), and the
\* empty tuple that "()" denotes: the two results of eval that are no
\* finite number.
Infinity(sign) == [inf |-> sign]

EmptyTuple == [items |-> <<>>]

\* isinstance(result, (int, float)) of line 183
IsNumber(result) == DOMAIN result # {"items"}

\* result == float('inf') or result == float('-inf') of line 184
IsInfinite(result) == DOMAIN result = {"inf"}

\* The parser takes parentheses nested up to 200 deep.
MaxParentheses == 200

\* the text is "()" within further pairs of parentheses
IsEmptyTuple(e) ==
    /\ e # <<>>
    /\ Len(e) % 2 = 0
    /\ Len(e) <= 2 * MaxParentheses
    /\ \A i \in 1..Len(e) : e[i] = (IF 2 * i <= Len(e) THEN "(" ELSE ")")

\* the digits of literal c before its point
IntegerPart(c) == SelectSeq(SubSeq(c, 1, CHOOSE i \in 1..Len(c) : c[i] = "."), IsAsciiDigit)

\* The text is one float literal, signed or not, that reads as inf: its
\* value reaches OverflowThreshold, which its integer part then does.
IsInfiniteLiteral(lits, ops) ==
    /\ ops = <<>>
    /\ Count(lits[1], ".") = 1
    /\ TooLargeForFloat(IntegerPart(lits[1]))

\* A digit or a whitespace character that is no character of Python source:
\* the tokenizer takes 0-9 and blank, tab, form feed and the line ends, and
\* refuses a text of numbers and operators that holds another one.
NoSourceChar(c) ==
    \/ IsDigit(c) /\ ~IsAsciiDigit(c)
    \/ IsSpace(c) /\ c \notin {" ", "\t", "\n", "\r", "\f"}

\* eval(expression, {"__builtins__": {}}, {}): the exception raised ("" for
\* none) and the value; exact tells whether the model's outcome is the one
\* the code has.  The text is tokenized and parsed (SyntaxError), compiled
\* (RecursionError) and then run.  Of the expressions with a parenthesis
\* or a whitespace character of Python source the model knows the empty
\* tuple alone; it knows no expression whose nesting some call of
\* evaluate_expression compiles and another refuses and, of those with a
\* literal of more than nine digits, only the single divisions
\* QuotientOverflows tells to overflow and the float literals that read as
\* inf.  Python runs the operations from left to right and the first
\* exception ends the run: a zero divisor raises ZeroDivisionError where no
\* operation before it can overflow, which StaysFinite tells.
eval(e) ==
    LET minus == HasUnaryMinus(e)
        lits == Literals(e)
        ops == BinaryOperators(e)
        vals == Operands(lits, minus)
        folded == Folded(ops, vals)
    IN  IF IsEmptyTuple(e) THEN [raises |-> "", value |-> EmptyTuple, exact |-> TRUE]
        ELSE IF \E i \in 1..Len(e) :
               ~(IsAsciiDigit(e[i]) \/ IsOperator(e[i]) \/ e[i] = "." \/ NoSourceChar(e[i]))
        THEN [raises |-> "", value |-> Zero, exact |-> FALSE]
        ELSE IF \E i \in 1..Len(e) : NoSourceChar(e[i])
        THEN [raises |-> "SyntaxError", value |-> Zero, exact |-> TRUE]
        ELSE IF IsSyntaxError(lits) THEN [raises |-> "SyntaxError", value |-> Zero, exact |-> TRUE]
        ELSE IF /\ Len(ops) + 2 >= CompileDepth(MaxFrames, 1)
                /\ NestsAtLeast(ops, HasUnarySign(e), CompileDepth(MaxFrames, 1)) THEN
            IF NestsAtLeast(ops, HasUnarySign(e), CompileDepth(MinFrames, EarlyCalls + 1))
            THEN [raises |-> "RecursionError", value |-> Zero, exact |-> TRUE]
            ELSE [raises |-> "", value |-> Zero, exact |-> FALSE]
        ELSE IF \E i \in 1..Len(lits) : Len(lits[i]) > 9 THEN
            IF QuotientOverflows(lits, ops)
            THEN [raises |-> "OverflowError", value |-> Zero, exact |-> TRUE]
            ELSE IF IsInfiniteLiteral(lits, ops)
            THEN [raises |-> "", value |-> Infinity(IF minus THEN -1 ELSE 1), exact |-> TRUE]
            ELSE [raises |-> "", value |-> Zero, exact |-> FALSE]
        ELSE IF ~StaysFinite(e) THEN [raises |-> "", value |-> Zero, exact |-> FALSE]
        ELSE IF DividesByZero(ops, vals) THEN [raises |-> "ZeroDivisionError", value |-> Zero, exact |-> TRUE]
        ELSE IF ~ExactArithmetic(ops, vals, folded) THEN [raises |-> "", value |-> Zero, exact |-> FALSE]
        ELSE [raises |-> "", value |-> Combine(folded), exact |-> TRUE]

\* the strings the model evaluates
Evaluable(e) == eval(e).exact

\* ------------------------------------------------------ evaluate_expression

\* The widget's three fields as one record.
State == [display_text |-> display_text, new_expression |-> new_expression,
          last_result |-> last_result]



\* the ZeroDivisionError handler clearing last_result as well
ShowDivZeroResetsResult(s) ==
    [s EXCEPT !.display_text = DivZeroText, !.new_expression = TRUE, !.last_result = Zero]

\* lines 198-200
ShowDivZero(s) == [s EXCEPT !.display_text = DivZeroText, !.new_expression = TRUE]

\* lines 201-203
ShowError(s) == [s EXCEPT !.display_text = ErrorText, !.new_expression = TRUE]

\* lines 175-177: the string is rejected before eval
ShowUnsafe(s) == [s EXCEPT !.display_text = ErrorText]

\* the exceptions the handler of line 201 names
CaughtAsError == {"SyntaxError", "NameError", "TypeError", "ValueError"}

\* an exception that neither handler of lines 198-203 names leaves
\* evaluate_expression before any field is assigned
Escapes(s) == s

\* lines 169-171 taking the '0' shown for a fresh start
ShowEmptyStartsFresh(s) == [s EXCEPT !.display_text = <<"0">>, !.new_expression = TRUE]

\* lines 169-171
ShowEmpty(s) == [s EXCEPT !.display_text = <<"0">>]

\* Lines 183-196.  A result that is no number shows 'Error' and nothing
\* else (lines 195-196).  An infinite one shows 'Error' (line 185), leaves
\* formatted_result unassigned, and line 192 raises UnboundLocalError, a
\* NameError, before lines 193-194: the handler of lines 201-203 runs.
\* Any other number is shown, kept and starts a new expression.
ShowResult(s, result) ==
    IF ~IsNumber(result) THEN [s EXCEPT !.display_text = ErrorText]
    ELSE IF IsInfinite(result) THEN ShowError([s EXCEPT !.display_text = ErrorText])
    ELSE [display_text |-> FormatResult(result), new_expression |-> TRUE, last_result |-> result]

evaluate_expression(s) ==
    LET expression == StripTrailingOperators(s.display_text)
        result == eval(expression)
    IN  IF expression = <<>> THEN ShowEmpty(s)
        ELSE IF ~is_safe_expression(expression) THEN ShowUnsafe(s)
        ELSE IF result.raises = "ZeroDivisionError" THEN ShowDivZero(s)
        ELSE IF result.raises \in CaughtAsError THEN ShowError(s)
        ELSE IF result.raises # "" THEN Escapes(s)
        ELSE ShowResult(s, result.value)

\* ------------------------------------------------------------ process_input


\* the fresh-start branch appending where line 115 replaces
FreshStartAppends(s, value) ==
    IF IsDigit(value) \/ value = "."
    THEN [s EXCEPT !.display_text = s.display_text \o <<value>>, !.new_expression = FALSE]
    ELSE s

\* the fresh-start branch letting Clear through
FreshStartClears(s, value) ==
    IF IsDigit(value) \/ value = "."
    THEN [s EXCEPT !.display_text = <<value>>, !.new_expression = FALSE]
    ELSE IF value = "C"
         THEN [display_text |-> <<"0">>, new_expression |-> TRUE, last_result |-> Zero]
         ELSE s

\* lines 112-117: the branch taken while new_expression is set
FreshStart(s, value) ==
    IF IsDigit(value) \/ value = "."
    THEN [s EXCEPT !.display_text = <<value>>, !.new_expression = FALSE]
    ELSE s

\* lines 119-123
Clear(s) == [display_text |-> <<"0">>, new_expression |-> TRUE, last_result |-> Zero]


\* Delete without the length test of line 127
DeleteWithoutLengthTest(s) == [s EXCEPT !.display_text = Front(s.display_text)]

\* lines 125-130
Delete(s) ==
    IF Len(s.display_text) > 1
    THEN [s EXCEPT !.display_text = Front(s.display_text)]
    ELSE [s EXCEPT !.display_text = <<"0">>]


\* Operator without the replacement of lines 138-140
OperatorAlwaysAppends(s, value) ==
    [s EXCEPT !.display_text = s.display_text \o <<value>>, !.new_expression = FALSE]

\* lines 136-143
Operator(s, value) ==
    IF s.display_text # <<>> /\ IsOperator(Last(s.display_text))
    THEN [s EXCEPT !.display_text = Front(s.display_text) \o <<value>>, !.new_expression = FALSE]
    ELSE [s EXCEPT !.display_text = s.display_text \o <<value>>, !.new_expression = FALSE]


\* NumberOrPoint without the decimal-point test of lines 151-156
NumberOrPointWithoutPointTest(s, value) ==
    IF s.display_text = <<"0">> /\ value # "."
    THEN [s EXCEPT !.display_text = <<value>>, !.new_expression = FALSE]
    ELSE [s EXCEPT !.display_text = s.display_text \o <<value>>, !.new_expression = FALSE]

\* NumberOrPoint without the leading-zero test of lines 147-148
NumberOrPointKeepsZero(s, value) ==
    IF value = "." /\ Count(LastPart(s.display_text), ".") > 0
    THEN s
    ELSE [s EXCEPT !.display_text = s.display_text \o <<value>>, !.new_expression = FALSE]

\* lines 145-159
NumberOrPoint(s, value) ==
    IF s.display_text = <<"0">> /\ value # "."
    THEN [s EXCEPT !.display_text = <<value>>, !.new_expression = FALSE]
    ELSE IF value = "." /\ Count(LastPart(s.display_text), ".") > 0
         THEN s
         ELSE [s EXCEPT !.display_text = s.display_text \o <<value>>, !.new_expression = FALSE]

\* process_input without the operator test of line 112
ProcessInputWithoutOperatorTest(s, value) ==
    IF s.new_expression THEN FreshStart(s, value)
    ELSE IF value = "C" THEN Clear(s)
    ELSE IF value = "DEL" THEN Delete(s)
    ELSE IF value = "=" THEN evaluate_expression(s)
    ELSE IF IsOperator(value) THEN Operator(s, value)
    ELSE NumberOrPoint(s, value)

process_input(s, value) ==
    IF s.new_expression /\ ~IsOperator(value) THEN FreshStart(s, value)
    ELSE IF value = "C" THEN Clear(s)
    ELSE IF value = "DEL" THEN Delete(s)
    ELSE IF value = "=" THEN evaluate_expression(s)
    ELSE IF IsOperator(value) THEN Operator(s, value)
    ELSE NumberOrPoint(s, value)

\* ------------------------------------------------------------ specification

\* The buttons of create_widgets that are explored.
Tokens == Digits \cup {"."} \cup Operators \cup {"C", "DEL", "="}

\* An Equals that reaches eval is explored where the model evaluates it.
ReachesEval(s) ==
    /\ ~s.new_expression
    /\ StripTrailingOperators(s.display_text) # <<>>
    /\ is_safe_expression(StripTrailingOperators(s.display_text))

\* s becomes t under the token: an Equals is explored where the model
\* evaluates it, a growing text while it is shorter than n.
ExploredUpTo(s, value, t, n) ==
    IF value = "="
    THEN ReachesEval(s) => Evaluable(StripTrailingOperators(s.display_text))
    ELSE IF Len(t.display_text) <= Len(s.display_text) THEN TRUE
    ELSE Len(t.display_text) <= n

Explored(s, value, t) == ExploredUpTo(s, value, t, MaxLen)

\* The instance attribute after a step that read the flag as before and
\* leaves it as after.  Each assignment of lines 116, 123, 143, 159, 194,
\* 200 and 203 is to self.new_expression, which binds the attribute on the
\* instance and leaves that of the class alone.  A step that leaves the
\* flag as it read it either assigns nothing or assigns False where it read
\* False, which only an instance attribute holds.
Bound(own, before, after) == IF after # before THEN <<after>> ELSE own

\* the assignments to new_expression binding the attribute of the class,
\* which every instance without one of its own reads
BecomesOnClass(t) ==
    /\ peer' = peer
    /\ class_new_expression' = t.new_expression
    /\ own_new_expression' = own_new_expression
    /\ display_text' = t.display_text
    /\ last_result' = t.last_result

\* The step of the first instance from State to t.  The statements of
\* process_input and evaluate_expression assign self.display_text,
\* self.last_result and self.new_expression and nothing else: the
\* properties and the attribute of the instance change, the attribute of
\* the class and the other instance are not written.
Becomes(t) ==
    /\ peer' = peer
    /\ class_new_expression' = class_new_expression
    /\ own_new_expression' = Bound(own_new_expression, new_expression, t.new_expression)
    /\ display_text' = t.display_text
    /\ last_result' = t.last_result

\* the fields a new instance reads (lines 22-24), also what Clear leaves
FreshBuffer == [display_text |-> <<"0">>, new_expression |-> TRUE, last_result |-> Zero]

\* a new instance (lines 22-23), with no new_expression of its own
NewInstance == [display_text |-> <<"0">>, last_result |-> Zero, own_new_expression |-> <<>>]

\* on_button_press: the button's text goes through process_input
PressDigit ==
    \E value \in Digits :
        LET t == process_input(State, value)
        IN  Explored(State, value, t) /\ Becomes(t)

PressDecimalPoint ==
    LET t == process_input(State, ".")
    IN  Explored(State, ".", t) /\ Becomes(t)

PressOperator ==
    \E value \in Operators :
        LET t == process_input(State, value)
        IN  Explored(State, value, t) /\ Becomes(t)

PressClear ==
    LET t == process_input(State, "C")
    IN  Explored(State, "C", t) /\ Becomes(t)

PressDelete ==
    LET t == process_input(State, "DEL")
    IN  Explored(State, "DEL", t) /\ Becomes(t)

PressEquals ==
    LET t == process_input(State, "=")
    IN  Explored(State, "=", t) /\ Becomes(t)

\* lines 22-24
Init ==
    /\ display_text = <<"0">>
    /\ last_result = Zero
    /\ own_new_expression = <<>>
    /\ class_new_expression = TRUE
    /\ peer = NewInstance

Next ==
    \/ PressDigit
    \/ PressDecimalPoint
    \/ PressOperator
    \/ PressClear
    \/ PressDelete
    \/ PressEquals

Spec == Init /\ [][Next]_vars

\* ------------------------------------------------------------------ claims

\* How an Equals ends in state s, in the words of the error taxonomy:
\* "Absorbed" by the fresh-start branch, "Empty" after stripping, "Rejected"
\* by is_safe_expression, "DivisionByZero" and "SyntaxError" caught from
\* eval, "Unhandled" for an exception of eval that no handler catches,
\* "NoNumber" and "Infinite" for a result that is no finite number, or
\* "Success".
EqualsOutcome(s) ==
    LET expression == StripTrailingOperators(s.display_text)
        result == eval(expression)
    IN  IF s.new_expression THEN "Absorbed"
        ELSE IF expression = <<>> THEN "Empty"
        ELSE IF ~is_safe_expression(expression) THEN "Rejected"
        ELSE IF result.raises = "ZeroDivisionError" THEN "DivisionByZero"
        ELSE IF result.raises \in CaughtAsError THEN "SyntaxError"
        ELSE IF result.raises # "" THEN "Unhandled"
        ELSE IF ~IsNumber(result.value) THEN "NoNumber"
        ELSE IF IsInfinite(result.value) THEN "Infinite"
        ELSE "Success"

\* the state after n presses of the same button
RECURSIVE Repeat(_, _, _)
Repeat(s, value, n) == IF n = 0 THEN s ELSE Repeat(process_input(s, value), value, n - 1)

\* the state after the buttons of seq, pressed in order
RECURSIVE PressAll(_, _)
PressAll(s, seq) == IF seq = <<>> THEN s ELSE PressAll(process_input(s, Head(seq)), Tail(seq))

\* C1: pressing Clear in any reachable state gives text "0", lastResult 0
\* and isFreshStart true.
C1_ClearAlwaysResets ==
    LET t == process_input(State, "C")
    IN  /\ t.display_text = <<"0">>
        /\ t.last_result = Zero
        /\ t.new_expression

\* C2: from any reachable state, pressing Delete over and over reaches the
\* text "0" (one press per character is enough when every press removes
\* one), and a further Delete leaves the text "0".
C2_DeleteReachesZero ==
    \E n \in 0..Len(display_text) :
        LET t == Repeat(State, "DEL", n)
        IN  /\ t.display_text = <<"0">>
            /\ process_input(t, "DEL").display_text = <<"0">>

\* C3: after an Equals that ends in an error (the string rejected, a
\* division by zero, a syntax error), isFreshStart is true and the next
\* digit or decimal point replaces the whole display.
C3_ErrorStartsFresh ==
    LET t == process_input(State, "=")
    IN  (Explored(State, "=", t) /\ EqualsOutcome(State) \in {"Rejected", "DivisionByZero", "SyntaxError"})
        => /\ t.new_expression
           /\ \A d \in Digits \cup {"."} : process_input(t, d).display_text = <<d>>

\* C4: the display text is never the empty string.
C4_TextNeverEmpty == display_text # <<>>

\* C4 witness: an Equals on a text that is nothing but an operator, or a
\* Delete on a one-character text, is about to act.
C4_Witness ==
    /\ ~new_expression
    /\ Len(display_text) = 1
    /\ StripTrailingOperators(display_text) = <<>>

\* C5: the text never holds two adjacent operator characters, and an
\* operator pressed on a text that ends with an operator replaces it.
C5_NoAdjacentOperators ==
    /\ \A i \in 1..(Len(display_text) - 1) :
           ~(IsOperator(display_text[i]) /\ IsOperator(display_text[i + 1]))
    /\ IsOperator(Last(display_text))
       => \A op \in Operators :
              process_input(State, op).display_text = Front(display_text) \o <<op>>

\* C5 witness: an operator has replaced another one (the text kept its
\* length and ends with an operator the second of two presses chose).
C5_Witness ==
    /\ ~new_expression
    /\ Len(display_text) = 2
    /\ display_text[1] = "5"
    /\ display_text[2] = "/"
    /\ process_input(State, "-").display_text = <<"5", "-">>

\* C6: no numeric run (a stretch of the text between operators or
\* parentheses) holds more than one decimal point.
C6_OnePointPerRun ==
    \A i \in 1..Len(display_text) : \A j \in (i + 1)..Len(display_text) :
        (display_text[i] = "." /\ display_text[j] = ".")
        => \E m \in (i + 1)..(j - 1) :
               IsOperator(display_text[m]) \/ display_text[m] \in {"(", ")"}

\* C6 witness: the current run already holds a decimal point, and the
\* decimal point pressed now is left out.
C6_Witness ==
    /\ ~new_expression
    /\ display_text = <<"5", ".", "5">>
    /\ process_input(State, ".") = State

\* C7: the text holds only characters of the evaluator grammar and does not
\* begin with '+', '*' or '/'.
C7_TextIsWellFormed ==
    /\ \A i \in 1..Len(display_text) : IsSafeChar(display_text[i])
    /\ display_text[1] \notin {"+", "*", "/"}

\* a Digit, DecimalPoint or Operator token that process_input takes up (a
\* decimal point the current run already holds is left out)
Accepted(s, value) ==
    /\ IsAsciiDigit(value) \/ value = "." \/ IsOperator(value)
    /\ ~(value = "." /\ process_input(s, value) = s)

\* isFreshStart after the token, as the claim has it: cleared by an accepted
\* token, set by the events of setters, otherwise as it was
FreshAfter(s, value, setters) ==
    IF Accepted(s, value) THEN FALSE
    ELSE IF value = "C" /\ ~s.new_expression THEN TRUE
    ELSE IF value = "=" /\ EqualsOutcome(s) \in setters THEN TRUE
    ELSE s.new_expression

\* C8 as claimed: isFreshStart is true exactly after session start, a Clear
\* or a successful evaluation, with no accepted digit, decimal point or
\* operator since.
C8_FreshExactlyAfterSuccess ==
    \A value \in Tokens :
        LET t == process_input(State, value)
        IN  Explored(State, value, t)
            => t.new_expression = FreshAfter(State, value, {"Success"})

\* the Equals was evaluated and left an error marker on the display
EndsInErrorMarker(s, value, t) ==
    /\ value = "="
    /\ ~s.new_expression
    /\ t.display_text \in {ErrorText, DivZeroText}

\* C8 as amended: isFreshStart is false as soon as a Digit, DecimalPoint or
\* Operator token is accepted, and true after a Clear and after a
\* successful evaluation (as it is at session start); of the other tokens
\* only an Equals that ends in an error marker may set it, and every other
\* one leaves it as it was.
C8_FreshAfterClearOrEvaluation ==
    \A value \in Tokens :
        LET t == process_input(State, value)
        IN  Explored(State, value, t)
            => IF Accepted(State, value) THEN ~t.new_expression
               ELSE IF value = "C" \/ (value = "=" /\ EqualsOutcome(State) = "Success")
                    THEN t.new_expression
               ELSE IF EndsInErrorMarker(State, value, t)
                    THEN new_expression => t.new_expression
               ELSE t.new_expression = new_expression

\* C8 witness: the display shows the division-by-zero marker of the Equals
\* just pressed, and isFreshStart is set.
C8_Witness == new_expression /\ display_text = DivZeroText

\* the number a result text denotes
TextValue(text) ==
    IF text[1] = "-" THEN Neg(LiteralValue(Tail(text))) ELSE LiteralValue(text)

\* C9: after a successful Equals the text is the formatted result,
\* lastResult the value of the expression, isFreshStart is true and the
\* next digit replaces the display.
C9_SuccessStartsFresh ==
    LET t == process_input(State, "=")
    IN  (Explored(State, "=", t) /\ EqualsOutcome(State) = "Success")
        => /\ t.last_result = eval(StripTrailingOperators(display_text)).value
           /\ t.display_text = FormatResult(t.last_result)
           /\ TextValue(t.display_text) = t.last_result
           /\ t.new_expression
           /\ \A d \in Digits : process_input(t, d).display_text = <<d>>

\* C9 witness: the result 0.5 of a successful Equals is on display.
C9_Witness ==
    /\ new_expression
    /\ display_text = <<"0", ".", "5">>
    /\ last_result = Num(5, 1)

\* the sequences over S of length 1..n
RECURSIVE Runs(_, _)
Runs(S, n) ==
    IF n = 0 THEN {<<>>}
    ELSE Runs(S, n - 1) \cup {Append(r, c) : r \in Runs(S, n - 1), c \in S}

\* leading zeros suppressed: a leading "0" followed by a digit is dropped
RECURSIVE SuppressLeadingZeros(_)
SuppressLeadingZeros(seq) ==
    IF Len(seq) >= 2 /\ seq[1] = "0" /\ seq[2] # "."
    THEN SuppressLeadingZeros(Tail(seq))
    ELSE seq

\* the decimal points after the first one left out
RECURSIVE DropExtraPoints(_)
DropExtraPoints(seq) ==
    IF seq = <<>> THEN <<>>
    ELSE IF Last(seq) = "." /\ Count(Front(seq), ".") > 0 THEN DropExtraPoints(Front(seq))
    ELSE Append(DropExtraPoints(Front(seq)), Last(seq))

\* the state may have been typed on the fresh buffer: nothing but digits and
\* decimal points on display, no result since
TypedOnFreshBuffer ==
    /\ ~new_expression
    /\ last_result = Zero
    /\ \A i \in 1..Len(display_text) : IsAsciiDigit(display_text[i]) \/ display_text[i] = "."

\* C10 as claimed: Digit/DecimalPoint tokens typed on a fresh buffer give
\* their concatenation with leading zeros suppressed.
C10_TypedTextIsConcatenation ==
    TypedOnFreshBuffer
    => \A seq \in Runs(Digits \cup {"."}, MaxLen) \ {<<>>} :
           PressAll(FreshBuffer, seq) = State => display_text = SuppressLeadingZeros(seq)

\* C10 as amended: ... give their concatenation with leading zeros
\* suppressed, a decimal point typed after an earlier one being left out.
C10_TypedTextDropsExtraPoints ==
    TypedOnFreshBuffer
    => \A seq \in Runs(Digits \cup {"."}, MaxLen) \ {<<>>} :
           PressAll(FreshBuffer, seq) = State
           => display_text = SuppressLeadingZeros(DropExtraPoints(seq))

\* C10 witness: "0", "." and "5" typed on the fresh buffer.
C10_Witness ==
    /\ display_text = <<"0", ".", "5">>
    /\ PressAll(FreshBuffer, <<"0", ".", "5">>) = State

\* every numeric run of e holds a digit
EveryRunHasDigit(e) ==
    \A i \in 1..Len(Literals(e)) : \E j \in 1..Len(Literals(e)[i]) : IsAsciiDigit(Literals(e)[i][j])

\* no division of e has a divisor whose value is zero
NoZeroDivisor(e) ==
    ~DividesByZero(BinaryOperators(e), Operands(Literals(e), HasUnaryMinus(e)))

\* index of the first factor of the term that ends with operand j
RECURSIVE TermStart(_, _)
TermStart(ops, j) ==
    IF j = 1 THEN 1
    ELSE IF ops[j - 1] \in {"+", "-"} THEN j
    ELSE TermStart(ops, j - 1)

\* the product of the factors up to operand j of its term, left to right
RECURSIVE TermValue(_, _, _)
TermValue(vals, ops, j) ==
    IF j = TermStart(ops, j) THEN vals[j]
    ELSE IF ops[j - 1] = "*" THEN Mul(TermValue(vals, ops, j - 1), vals[j])
    ELSE Div(TermValue(vals, ops, j - 1), vals[j])

\* the sum of the terms up to the one that ends with operand j, left to right
RECURSIVE SumValue(_, _, _)
SumValue(vals, ops, j) ==
    LET i == TermStart(ops, j)
    IN  IF i = 1 THEN TermValue(vals, ops, j)
        ELSE IF ops[i - 1] = "+" THEN Add(SumValue(vals, ops, i - 1), TermValue(vals, ops, j))
        ELSE Sub(SumValue(vals, ops, i - 1), TermValue(vals, ops, j))

\* the value of e under standard precedence
StandardValue(e) ==
    SumValue(Operands(Literals(e), HasUnaryMinus(e)), BinaryOperators(e), Len(Literals(e)))

\* C11: an Equals on a text that satisfies the evaluator grammar, every run
\* of which is a number, and that divides by no zero succeeds, and the
\* result is the value under standard precedence.
C11_GrammarValidSucceeds ==
    LET e == StripTrailingOperators(display_text)
        t == process_input(State, "=")
    IN  (ReachesEval(State) /\ Explored(State, "=", t) /\ EveryRunHasDigit(e) /\ NoZeroDivisor(e))
        => /\ EqualsOutcome(State) = "Success"
           /\ t.last_result = StandardValue(e)

\* ------------------------------------------- the evaluator on its own
\* evaluate_expression as a function of the text it is given: the text is
\* drawn from the strings over ExprChars of length 1..MaxExprLen, and the
\* Equals button evaluates it.

MaxExprLen == 4

\* characters of the grammar, the blank among them, and one outside it
ExprChars == {"0", "5", ".", "+", "-", "*", "/", "(", ")", " ", "a"}

\* a division of integers whose quotient no float holds: 311 digits,
\* divided by 5
LongDivision == [i \in 1..311 |-> "5"] \o <<"/", "5">>

\* a float literal that reads as inf: 309 digits and a point
LongLiteral == [i \in 1..309 |-> "5"] \o <<".">>

EvalInit ==
    /\ display_text \in (Runs(ExprChars, MaxExprLen) \ {<<>>}) \cup {LongDivision, LongLiteral}
    /\ last_result = Zero
    /\ own_new_expression = <<FALSE>>
    /\ class_new_expression = TRUE
    /\ peer = NewInstance

EvalNext == PressEquals

EvalSpec == EvalInit /\ [][EvalNext]_vars

\* the grammar check passes what is left of the text after stripping, and
\* every numeric run of it is a number
GrammarValid(s) ==
    /\ ReachesEval(s)
    /\ EveryRunHasDigit(StripTrailingOperators(s.display_text))

\* C12: an Equals on a grammar-valid text in which some division has a
\* divisor of value zero shows "Error: Div/0" and sets isFreshStart.
C12_ZeroDivisorShowsDivZero ==
    [][(GrammarValid(State) /\ ~NoZeroDivisor(StripTrailingOperators(display_text)))
       => (display_text' = DivZeroText /\ new_expression')]_vars

\* two decimal points of e with no operator and no parenthesis between them
TwoPointsInRun(e) ==
    \E i \in 1..Len(e) : \E j \in (i + 1)..Len(e) :
        /\ e[i] = "."
        /\ e[j] = "."
        /\ \A m \in (i + 1)..(j - 1) : ~(IsOperator(e[m]) \/ e[m] \in {"(", ")"})

\* one of the grammar violations the claim lists
ViolatesGrammar(e) ==
    \/ \E i \in 1..(Len(e) - 1) : IsOperator(e[i]) /\ IsOperator(e[i + 1])
    \/ TwoPointsInRun(e)
    \/ e[1] \in {"+", "*", "/"}
    \/ Count(e, "(") # Count(e, ")")
    \/ \E i \in 1..Len(e) :
           e[i] \notin {"0", "1", "2", "3", "4", "5", "6", "7", "8", "9",
                        ".", "+", "-", "*", "/", "(", ")"} \cup Whitespace

\* what is left of the text of s after stripping violates the grammar
HoldsViolation(s) ==
    /\ ~s.new_expression
    /\ StripTrailingOperators(s.display_text) # <<>>
    /\ ViolatesGrammar(StripTrailingOperators(s.display_text))

\* C13: an Equals on a text that, after the trailing operators are stripped,
\* has two adjacent operators, two decimal points in one run, a leading '+',
\* '*' or '/', unbalanced parentheses or a character outside the allowed set
\* shows "Error" and evaluates to no number: lastResult stays as it was.
C13_ViolationShowsError ==
    [][HoldsViolation(State) => (display_text' = ErrorText /\ last_result' = last_result)]_vars

\* C13 witness: the display shows "Error" after an Equals that the grammar
\* check rejected (the rejection leaves isFreshStart false).
C13_Witness == display_text = ErrorText /\ ~new_expression

\* the token raises, in state s, an exception that leaves process_input
Unhandled(s, value) ==
    /\ value = "="
    /\ Explored(s, value, process_input(s, value))
    /\ EqualsOutcome(s) = "Unhandled"

\* C14: no token of the input surface, applied in any state, raises an
\* exception that leaves process_input unhandled.
C14_NoUnhandledException == \A value \in Tokens \cup {"+"} : ~Unhandled(State, value)

\* the text up to its last character that is no operator
Stem(text) ==
    IF \A i \in 1..Len(text) : IsOperator(text[i]) THEN <<>>
    ELSE SubSeq(text, 1, CHOOSE i \in 1..Len(text) :
                             ~IsOperator(text[i]) /\ \A j \in (i + 1)..Len(text) : IsOperator(text[j]))

\* C15: an Equals on a text that ends with operators evaluates the text
\* without them (the fields become what the Equals on that text makes
\* them), and shows "0" with no error marker where nothing but operators
\* was there.
C15_StripsTrailingOperators ==
    [][(~new_expression /\ IsOperator(Last(display_text)))
       => IF Stem(display_text) = <<>>
          THEN display_text' = <<"0">>
          ELSE <<display_text', new_expression', last_result'>>
               = LET t == evaluate_expression([State EXCEPT !.display_text = Stem(display_text)])
                 IN  <<t.display_text, t.new_expression, t.last_result>>]_vars

\* C15 witness: the text "5+-" is about to be evaluated as "5".
C15_Witness ==
    /\ ~new_expression
    /\ display_text = <<"5", "+", "-">>
    /\ process_input(State, "=") = ShowResult(State, Num(5, 0))

\* C16: an operator pressed while isFreshStart is true keeps the display:
\* it is appended to the text (or replaces a trailing operator),
\* isFreshStart becomes false, lastResult stays, and a following digit is
\* appended after the operator.
C16_OperatorChainsOnFresh ==
    new_expression
    => \A op \in Operators \cup {"+"} :
           LET t == process_input(State, op)
           IN  /\ t.display_text =
                      (IF IsOperator(Last(display_text)) THEN Front(display_text) ELSE display_text)
                      \o <<op>>
               /\ ~t.new_expression
               /\ t.last_result = last_result
               /\ \A d \in Digits :
                      process_input(t, d) = [t EXCEPT !.display_text = t.display_text \o <<d>>]

\* C16 witness: the result -5 with the operator '/' pressed after it.
C16_Witness ==
    /\ ~new_expression
    /\ display_text = <<"-", "5", "/">>
    /\ last_result = Num(-5, 0)

\* --------------------------------------------------------- two sessions
\* Two CalculatorLayout instances whose buttons are pressed in any order.

SessionLen == 2

\* the buttons pressed in the two sessions
SessionTokens == {"5", ".", "-", "C", "DEL", "="}

\* the three fields as the second instance reads them
PeerState ==
    [display_text |-> peer.display_text,
     new_expression |-> Lookup(peer.own_new_expression, class_new_expression),
     last_result |-> peer.last_result]

\* a button of the first instance
PressFirst ==
    \E value \in SessionTokens :
        LET t == process_input(State, value)
        IN  Becomes(t) /\ ExploredUpTo(State, value, t, SessionLen)

\* a button of the second instance: process_input runs with self bound to
\* it, so that its properties and its attribute are the ones assigned
PressSecond ==
    \E value \in SessionTokens :
        LET t == process_input(PeerState, value)
        IN  /\ UNCHANGED <<display_text, last_result, own_new_expression>>
            /\ class_new_expression' = class_new_expression
            /\ peer' = [display_text |-> t.display_text,
                        last_result |-> t.last_result,
                        own_new_expression |->
                            Bound(peer.own_new_expression, PeerState.new_expression, t.new_expression)]
            /\ ExploredUpTo(PeerState, value, t, SessionLen)

SessionsNext == PressFirst \/ PressSecond

SessionsSpec == Init /\ [][SessionsNext]_vars

\* C17: with two sessions whose tokens interleave, a token applied to one
\* session leaves the text, isFreshStart and lastResult that the other
\* session reads as they were: a press in the first leaves the second's
\* three fields, a press in the second the first's (no step that changes
\* what one session reads is a press in the other).
C17_SessionsIndependent ==
    [][/\ PeerState' # PeerState => ~PressFirst
       /\ State' # State => ~PressSecond]_vars

\* C17 witness: the first session holds a typed digit and an operator and
\* has a flag of its own, while the second, which has none, still reads
\* the flag of the class after the first was pressed.
C17_Witness ==
    /\ State = [display_text |-> <<"5", "-">>, new_expression |-> FALSE, last_result |-> Zero]
    /\ own_new_expression = <<FALSE>>
    /\ peer.own_new_expression = <<>>
    /\ PeerState = [display_text |-> <<"0">>, new_expression |-> TRUE, last_result |-> Zero]

\* the text after the last operator of text holds a decimal point
RunHoldsPoint(text) ==
    \E i \in 1..Len(text) :
        text[i] = "." /\ \A j \in i..Len(text) : ~IsOperator(text[j])

\* C18: a decimal point pressed while isFreshStart is false and the current
\* numeric run already holds one changes nothing: text, isFreshStart and
\* lastResult stay as they were.
C18_SecondPointIsNoOp ==
    (~new_expression /\ RunHoldsPoint(display_text)) => process_input(State, ".") = State

\* C18 witness: the run "0.0" of the text holds a point and the point
\* pressed now leaves the state as it is.
C18_Witness ==
    /\ ~new_expression
    /\ display_text = <<"0", ".", "0">>
    /\ process_input(State, ".") = State

\* C19: while isFreshStart is true, Clear, Delete and Equals leave text,
\* lastResult and isFreshStart exactly as they were.
C19_FreshAbsorbsControls ==
    new_expression => \A value \in {"C", "DEL", "="} : process_input(State, value) = State

\* C19 witness: the result 5 is on display, fresh, and Clear leaves it there.
C19_Witness ==
    /\ new_expression
    /\ display_text = <<"5">>
    /\ last_result = Num(5, 0)
    /\ process_input(State, "C") = State

\* C20: lastResult changes only with a successful Equals or an executed
\* Clear; an Equals that ends empty, rejected, in a division by zero or in a
\* caught error leaves it as it was.
C20_ResultChangesOnSuccessOrClear ==
    \A value \in Tokens :
        LET t == process_input(State, value)
        IN  (Explored(State, value, t) /\ t.last_result # last_result)
            => \/ value = "=" /\ EqualsOutcome(State) = "Success"
               \/ value = "C" /\ ~new_expression

\* C20 witness: a division by zero has been shown and lastResult still holds
\* the result 5 of the Equals before it.
C20_Witness ==
    /\ new_expression
    /\ display_text = DivZeroText
    /\ last_result = Num(5, 0)

====
